---------------------------- MODULE Spec2Model ----------------------------
(***************************************************************************)
(* Model of diol.core: the generic Repository over a records.Database and  *)
(* the model class decorator; and of the foreign-key resolution that the   *)
(* Repository of zentity.core adds to save and get_or_save.                *)
(*                                                                         *)
(* Python values are modelled as follows.  A dict (keyword arguments, a    *)
(* row returned with as_dict=True, the __dict__ of a class or of an        *)
(* instance) is a sequence of <<key, value>> pairs with distinct keys, in  *)
(* insertion order.  A str that the code builds character by character (a  *)
(* class name) is a sequence of one-character strings; SQL text and column *)
(* names are strings.  Scalars are naturals, and None is the value None.   *)
(***************************************************************************)
EXTENDS Integers, Sequences, FiniteSets, TLC

VARIABLES
    classes,         \* the classes defined so far: name, base, class __dict__
    repos,           \* the Repository objects constructed so far
    db_connections,  \* the module-level dict _db_connections
    db_count,        \* how many records.Database objects were created
    saved,           \* the last dispatch of instance.save()
    heap,            \* the instance objects handed to the last operation
    call,            \* the last Repository operation: input, queries, outcome
    init_threads,    \* the threads running Repository.__init__: position, locals
    connection_lock, \* the thread that holds Repository.connection_lock, or 0
    table            \* a database that stores rows, and the calls made against it

vars == <<classes, repos, db_connections, db_count, saved, heap, call,
          init_threads, connection_lock, table>>

---------------------------------------------------------------------------
(* Bounds of the model *)

MaxRows == 2        \* rows in one answer of the database
MaxClasses == 2     \* classes defined in one run
MaxRepos == 2       \* Repository objects constructed in one run

---------------------------------------------------------------------------
(* Python values *)

None == -1

\* bool(v) is False: None, 0 (and the empty containers, which no field holds)
Falsy(v) == v = None \/ v = 0

\* dict: the keys in order, membership, lookup, d[k] = v
Keys(d) == [i \in 1..Len(d) |-> d[i][1]]
HasKey(d, k) == \E i \in 1..Len(d) : d[i][1] = k
Item(d, k) == d[CHOOSE i \in 1..Len(d) : d[i][1] = k][2]
Put(d, k, v) ==
    IF HasKey(d, k)
    THEN [i \in 1..Len(d) |-> IF d[i][1] = k THEN <<k, v>> ELSE d[i]]
    ELSE Append(d, <<k, v>>)

\* every sequence without repetition over the set S
RECURSIVE Perms(_)
Perms(S) ==
    IF S = {} THEN {<<>>}
    ELSE UNION {{<<x>> \o p : p \in Perms(S \ {x})} : x \in S}

\* every sequence over S of length at most n
RECURSIVE SeqsUpTo(_, _)
SeqsUpTo(S, n) ==
    IF n = 0 THEN {<<>>}
    ELSE LET shorter == SeqsUpTo(S, n - 1)
         IN  shorter \cup {Append(s, x) : s \in shorter, x \in S}

---------------------------------------------------------------------------
(* str operations *)

UpperSeq == <<"A", "B", "C", "D", "E", "F", "G", "H", "I", "J", "K", "L", "M",
              "N", "O", "P", "Q", "R", "S", "T", "U", "V", "W", "X", "Y", "Z">>
LowerSeq == <<"a", "b", "c", "d", "e", "f", "g", "h", "i", "j", "k", "l", "m",
              "n", "o", "p", "q", "r", "s", "t", "u", "v", "w", "x", "y", "z">>

IsUpper(c) == \E i \in 1..Len(UpperSeq) : UpperSeq[i] = c

\* str.lower() on one character and on a str
LowerChar(c) ==
    IF IsUpper(c)
    THEN LowerSeq[CHOOSE i \in 1..Len(UpperSeq) : UpperSeq[i] = c]
    ELSE c
Lower(s) == [i \in 1..Len(s) |-> LowerChar(s[i])]

\* str.strip(): leading and trailing whitespace removed
RECURSIVE LStrip(_)
LStrip(s) == IF s # <<>> /\ Head(s) = " " THEN LStrip(Tail(s)) ELSE s
RECURSIVE RStrip(_)
RStrip(s) ==
    IF s # <<>> /\ s[Len(s)] = " " THEN RStrip(SubSeq(s, 1, Len(s) - 1)) ELSE s
Strip(s) == RStrip(LStrip(s))

\* sep.join(parts), on sequences of characters and on strings
RECURSIVE JoinChars(_, _)
JoinChars(parts, sep) ==
    IF parts = <<>> THEN <<>>
    ELSE IF Len(parts) = 1 THEN parts[1]
    ELSE parts[1] \o sep \o JoinChars(Tail(parts), sep)
RECURSIVE Join(_, _)
Join(parts, sep) ==
    IF parts = <<>> THEN ""
    ELSE IF Len(parts) = 1 THEN parts[1]
    ELSE parts[1] \o sep \o Join(Tail(parts), sep)

\* the characters of a str as one string
RECURSIVE Str(_)
Str(s) == IF s = <<>> THEN "" ELSE Head(s) \o Str(Tail(s))

\* the longest prefix of s without a capital letter: the match of [^A-Z]*
RECURSIVE NonUpperPrefix(_)
NonUpperPrefix(s) ==
    IF s = <<>> \/ IsUpper(Head(s)) THEN <<>>
    ELSE <<Head(s)>> \o NonUpperPrefix(Tail(s))

\* re.findall('[A-Z][^A-Z]*', s): scanning from the left, each capital letter
\* starts a match that runs up to the next capital; characters before the
\* first capital belong to no match
RECURSIVE FindParts(_)
FindParts(s) ==
    IF s = <<>> THEN <<>>
    ELSE IF IsUpper(Head(s))
    THEN LET rest == NonUpperPrefix(Tail(s))
         IN  <<(<<Head(s)>> \o rest)>>
                 \o FindParts(SubSeq(s, Len(rest) + 2, Len(s)))
    ELSE FindParts(Tail(s))

---------------------------------------------------------------------------
(* Classes: name, base class (0: none) and the class __dict__ *)

\* hasattr(cls, key) and getattr(cls, key): own __dict__, then the base
RECURSIVE HasAttr(_, _, _)
HasAttr(cs, c, key) ==
    \/ HasKey(cs[c].dict, key)
    \/ cs[c].base # 0 /\ HasAttr(cs, cs[c].base, key)
RECURSIVE GetAttr(_, _, _)
GetAttr(cs, c, key) ==
    IF HasKey(cs[c].dict, key) THEN Item(cs[c].dict, key)
    ELSE GetAttr(cs, cs[c].base, key)

---------------------------------------------------------------------------
(* Repository.__init__ *)

\* the table name of the repository of class c
TableName(cs, c) ==
    IF HasAttr(cs, c, "table_name")
    THEN GetAttr(cs, c, "table_name")
    ELSE Str(Strip(Lower(JoinChars(FindParts(cs[c].name), <<"_">>))))

\* The connection branch run under connection_lock: _connection_key was set
\* to None just before, so the branch is taken; a Database is created, stored
\* under 'default' and read back.  The result is the new _db_connections, the
\* new count of Database objects and the handle stored in self._db.
Connect(conns, count) ==
    LET connection_key == None
        taken == Falsy(connection_key)
        key == "default"
        conns2 == IF taken THEN Put(conns, key, count + 1) ELSE conns
    IN  [conns |-> conns2,
         count |-> IF taken THEN count + 1 ELSE count,
         db    |-> Item(conns2, key)]

RepositoryInit(cs, c, db) ==
    [model      |-> c,
     model_name |-> cs[c].name,
     table_name |-> TableName(cs, c),
     db         |-> db]

---------------------------------------------------------------------------
(* The database handle.  The answers of records.Database.query are not     *)
(* decided by this code: an operation runs against a script of answers,    *)
(* one per query in the order the queries are issued.  An answer either    *)
(* raises or carries the rows that .all(as_dict=True) gives.               *)

Rows(rows) == [raises |-> FALSE, rows |-> rows]
QueryRaises == [raises |-> TRUE, rows |-> <<>>]

\* the exception of the query library, and the exceptions the interpreter
\* raises inside the code of Repository
LibraryErrors == {"DatabaseError"}
OwnErrors == {"IndexError", "AttributeError"}

\* The state of a running operation: the script and the position in it, the
\* queries issued, the rows of the last answer, the pending exception, the
\* objects, and the kind of answer awaited, with the query that awaits it,
\* when the script is exhausted.
NoQuery == [sql |-> "", params |-> <<>>]

Start(h, ans) ==
    [ans |-> ans, pos |-> 1, queries |-> <<>>, rows |-> <<>>, exc |-> "",
     need |-> "", pending |-> NoQuery, heap |-> h]

Stopped(st) == st.exc # "" \/ st.need # ""

Raise(st, exc) == [st EXCEPT !.exc = exc]

\* self._db.query(sql, **params), followed by .all(as_dict=True) where the
\* caller reads the rows
DbQuery(st, kind, sql, params) ==
    IF Stopped(st) THEN st
    ELSE IF st.pos > Len(st.ans)
    THEN [st EXCEPT !.need = kind, !.pending = [sql |-> sql, params |-> params]]
    ELSE LET a == st.ans[st.pos]
         IN  [st EXCEPT !.queries = Append(@, [sql |-> sql, params |-> params]),
                        !.pos = @ + 1,
                        !.rows = a.rows,
                        !.exc = IF a.raises THEN "DatabaseError" ELSE ""]

\* what the caller of an operation observes
Returns(st, value) ==
    [queries |-> st.queries,
     answers |-> SubSeq(st.ans, 1, st.pos - 1),
     need    |-> st.need,
     pending |-> st.pending,
     exc     |-> st.exc,
     value   |-> IF Stopped(st) THEN None ELSE value,
     heap    |-> st.heap]

\* self.model(**row): a new instance whose attributes are the row's items
New(st, repo, row) ==
    [st EXCEPT !.heap = Append(@, [cls |-> repo.model, attrs |-> row])]

---------------------------------------------------------------------------
(* Repository: SQL text *)

NL12 == "\n            "
NL8 == "\n        "

\* a variant of _columns that joins with "," alone
_columns_no_space(data) == Join(Keys(data), ",")

_columns(data) == Join(Keys(data), ", ")

_placeholders(data) ==
    Join([i \in 1..Len(data) |-> ":" \o data[i][1]], ", ")

_where(data) ==
    Join([i \in 1..Len(data) |-> data[i][1] \o "=:" \o data[i][1]], " AND ")

LastIdSql == NL12 \o "SELECT LAST_INSERT_ID() as id" \o NL8

InsertSql(repo, data) ==
    NL12 \o "INSERT INTO " \o repo.table_name \o "(" \o _columns(data) \o ")"
         \o NL12 \o "VALUES (" \o _placeholders(data) \o ")" \o NL8

SelectAllSql(repo) == NL12 \o "SELECT * FROM " \o repo.table_name \o NL8

SelectLastSql(repo) ==
    NL12 \o "SELECT * FROM " \o repo.table_name \o " WHERE id=:id" \o NL8

SelectBySql(repo, data) ==
    NL12 \o "SELECT * FROM " \o repo.table_name \o " WHERE " \o _where(data)
         \o NL8

---------------------------------------------------------------------------
(* Repository: the private queries *)

\* the property _last_id: the query, then the value it returns
LastIdValue(rows) ==
    IF Len(rows) # 0 /\ HasKey(rows[1], "id") THEN Item(rows[1], "id") ELSE None

_last_id(repo, st) == DbQuery(st, "last_id", LastIdSql, <<>>)

_create(repo, st, data) == DbQuery(st, "insert", InsertSql(repo, data), data)

_get_all(repo, st) == DbQuery(st, "select", SelectAllSql(repo), <<>>)

\* a variant of _get_last that sends the SELECT without asking for the id
_get_last_no_id(repo, st) ==
    DbQuery(st, "select", SelectLastSql(repo), <<(<<"id", None>>)>>)

\* the argument id=self._last_id is evaluated, by its own query, before the
\* SELECT is sent
_get_last(repo, st) ==
    LET st1 == _last_id(repo, st)
    IN  DbQuery(st1, "select", SelectLastSql(repo),
                <<<<"id", LastIdValue(st1.rows)>>>>)

_get_all_by(repo, st, data) ==
    DbQuery(st, "select", SelectBySql(repo, data), data)

---------------------------------------------------------------------------
(* Repository: the public operations.  Each takes the repository, the      *)
(* objects of the caller, its argument and the script of answers.          *)

\* {k: v for k, v in asdict(instance).items() if v is not None}
NotNone(attrs) == SelectSeq(attrs, LAMBDA p : p[2] # None)

\* a variant of NewAll that builds the instances from the last row to the
\* first
RECURSIVE NewAllReversed(_, _, _)
NewAllReversed(st, repo, rows) ==
    IF rows = <<>> THEN st
    ELSE NewAllReversed(New(st, repo, rows[Len(rows)]), repo,
                        SubSeq(rows, 1, Len(rows) - 1))

\* [self.model(**elem) for elem in rows]
RECURSIVE NewAll(_, _, _)
NewAll(st, repo, rows) ==
    IF rows = <<>> THEN st ELSE NewAll(New(st, repo, Head(rows)), repo, Tail(rows))

\* setattr(instance, key, val)
SetAttr(st, ref, key, val) ==
    [st EXCEPT !.heap[ref].attrs = Put(@, key, val)]

create(repo, h, data, ans) ==
    LET st1 == _create(repo, Start(h, ans), data)
    IN  IF Stopped(st1) THEN Returns(st1, None)
        ELSE IF ~HasKey(data, "id")
        THEN \* data['id'] = self.last_id: Repository has the property
             \* _last_id and no attribute last_id, so the lookup raises
             Returns(Raise(st1, "AttributeError"), None)
        ELSE LET st2 == New(st1, repo, data)
             IN  Returns(st2, Len(st2.heap))

\* a variant of get_or_create that inserts before it tests "if not rows"
get_or_create_always(repo, h, data, ans) ==
    LET st1 == _get_all_by(repo, Start(h, ans), data)
        stc == _create(repo, st1, data)
        st2 == IF ~Stopped(stc) /\ st1.rows = <<>>
               THEN _get_last(repo, stc)
               ELSE [stc EXCEPT !.rows = st1.rows]
    IN  IF Stopped(st2) THEN Returns(st2, None)
        ELSE IF st2.rows = <<>> THEN Returns(Raise(st2, "IndexError"), None)
        ELSE LET st3 == New(st2, repo, st2.rows[1])
             IN  Returns(st3, Len(st3.heap))

get_or_create(repo, h, data, ans) ==
    LET st1 == _get_all_by(repo, Start(h, ans), data)
        st2 == IF ~Stopped(st1) /\ st1.rows = <<>>
               THEN _get_last(repo, _create(repo, st1, data))
               ELSE st1
    IN  IF Stopped(st2) THEN Returns(st2, None)
        ELSE IF st2.rows = <<>> THEN Returns(Raise(st2, "IndexError"), None)
        ELSE LET st3 == New(st2, repo, st2.rows[1])
             IN  Returns(st3, Len(st3.heap))

filter(repo, h, data, ans) ==
    LET st1 == _get_all_by(repo, Start(h, ans), data)
    IN  IF Stopped(st1) THEN Returns(st1, None)
        ELSE LET st2 == NewAll(st1, repo, st1.rows)
             IN  Returns(st2, [i \in 1..Len(st1.rows) |-> Len(h) + i])

\* a variant of get that takes the last row
get_last_row(repo, h, data, ans) ==
    LET st1 == _get_all_by(repo, Start(h, ans), data)
    IN  IF Stopped(st1) THEN Returns(st1, None)
        ELSE IF st1.rows # <<>>
        THEN LET st2 == New(st1, repo, st1.rows[Len(st1.rows)])
             IN  Returns(st2, Len(st2.heap))
        ELSE Returns(st1, None)

get(repo, h, data, ans) ==
    LET st1 == _get_all_by(repo, Start(h, ans), data)
    IN  IF Stopped(st1) THEN Returns(st1, None)
        ELSE IF st1.rows # <<>>
        THEN LET st2 == New(st1, repo, st1.rows[1])
             IN  Returns(st2, Len(st2.heap))
        ELSE Returns(st1, None)

\* a variant of save that tests "instance.id is None"
save_if_none(repo, h, ref, ans) ==
    LET data == NotNone(h[ref].attrs)
        st1  == _create(repo, Start(h, ans), data)
        st2  == IF ~Stopped(st1) /\ Item(h[ref].attrs, "id") = None
                THEN LET st == _last_id(repo, st1)
                     IN  IF Stopped(st) THEN st
                         ELSE SetAttr(st, ref, "id", LastIdValue(st.rows))
                ELSE st1
    IN  Returns(st2, ref)

save(repo, h, ref, ans) ==
    LET data == NotNone(h[ref].attrs)
        st1  == _create(repo, Start(h, ans), data)
        st2  == IF ~Stopped(st1) /\ Falsy(Item(h[ref].attrs, "id"))
                THEN LET st == _last_id(repo, st1)
                     IN  IF Stopped(st) THEN st
                         ELSE SetAttr(st, ref, "id", LastIdValue(st.rows))
                ELSE st1
    IN  Returns(st2, ref)

\* {k: v for k, v in rows[0].items() for k2, v2 in data.items() if v != v2}
Diffs(row, data) ==
    SelectSeq(row, LAMBDA p : \E j \in 1..Len(data) : p[2] # data[j][2])

RECURSIVE SetAll(_, _, _)
SetAll(st, ref, diffs) ==
    IF diffs = <<>> THEN st
    ELSE SetAll(SetAttr(st, ref, Head(diffs)[1], Head(diffs)[2]), ref, Tail(diffs))

get_or_save(repo, h, ref, ans) ==
    LET data == NotNone(h[ref].attrs)
        st1  == _get_all_by(repo, Start(h, ans), data)
        st2  == IF ~Stopped(st1) /\ st1.rows = <<>>
                THEN _get_last(repo, _create(repo, st1, data))
                ELSE st1
    IN  IF Stopped(st2) THEN Returns(st2, None)
        ELSE IF st2.rows = <<>> THEN Returns(Raise(st2, "IndexError"), None)
        ELSE Returns(SetAll(st2, ref, Diffs(st2.rows[1], data)), ref)

\* what the caller observes of one operation followed by another
Then(r1, r2) ==
    [queries |-> r1.queries \o r2.queries,
     answers |-> r1.answers \o r2.answers,
     need    |-> r2.need,
     pending |-> r2.pending,
     exc     |-> r2.exc,
     value   |-> r2.value,
     heap    |-> r2.heap]

\* a variant of the loop that goes on to the next instance after a failure
RECURSIVE save_each_regardless(_, _, _, _)
save_each_regardless(repo, h, refs, ans) ==
    IF refs = <<>> THEN Returns(Start(h, ans), None)
    ELSE LET r == save(repo, h, Head(refs), ans)
             rest == SubSeq(ans, Len(r.answers) + 1, Len(ans))
         IN  IF r.need # "" THEN r
             ELSE LET r2 == save_each_regardless(repo, r.heap, Tail(refs), rest)
                  IN  Then(r, [r2 EXCEPT !.value = None,
                                         !.exc = IF r.exc # "" THEN r.exc ELSE @])

\* for instance in collection: self.save(instance)
RECURSIVE save_each(_, _, _, _)
save_each(repo, h, refs, ans) ==
    IF refs = <<>> THEN Returns(Start(h, ans), None)
    ELSE LET r == save(repo, h, Head(refs), ans)
             rest == SubSeq(ans, Len(r.answers) + 1, Len(ans))
         IN  IF r.exc # "" \/ r.need # "" THEN r
             ELSE Then(r, [save_each(repo, r.heap, Tail(refs), rest)
                              EXCEPT !.value = None])

save_all(repo, h, collection, ans) ==
    IF collection # <<>> THEN save_each(repo, h, collection, ans)
    ELSE Returns(Start(h, ans), None)

get_all(repo, h, ans) ==
    LET st1 == _get_all(repo, Start(h, ans))
    IN  IF Stopped(st1) THEN Returns(st1, None)
        ELSE LET st2 == NewAll(st1, repo, st1.rows)
             IN  Returns(st2, [i \in 1..Len(st1.rows) |-> Len(h) + i])

---------------------------------------------------------------------------
(* Inputs *)

\* the entity of the tests: class MyFakeEntity, a dataclass with the fields
\* title, content and id
MyFakeEntity == <<"M", "y", "F", "a", "k", "e", "E", "n", "t", "i", "t", "y">>
Fields == <<"title", "content", "id">>
Columns == {"id", "title", "content"}

\* keyword arguments: every ordered choice of at least one column, with
\* values (a WHERE clause needs a condition)
DataOver(keys) ==
    {[i \in 1..Len(keys) |-> <<keys[i], v[i]>>] : v \in [1..Len(keys) -> {1, 2}]}
DataSet ==
    UNION {DataOver(keys) :
              keys \in UNION {Perms(S) : S \in (SUBSET Columns) \ {{}}}}

\* instances of the entity as the caller builds them
Instances ==
    {<<<<"title", t>>, <<"content", c>>, <<"id", i>>>> :
        t \in {None, 1, 2}, c \in {None, 1, 2}, i \in {None, 0, 1, 2}}

\* collections of new instances: up to MaxCollection instances with one
\* title and any id
MaxCollection == 2
Collections ==
    SeqsUpTo({inst \in Instances :
                 Item(inst, "title") = 1 /\ Item(inst, "content") = None},
             MaxCollection)

\* rows of the entity's table
TableRows ==
    {<<<<"id", i>>, <<"title", t>>, <<"content", None>>>> :
        i \in {1, 2}, t \in {1, 2}}

\* the answers the database may give to a query of each kind
AnswersOf(kind) ==
    CASE kind = "select" ->
            {QueryRaises} \cup {Rows(rows) : rows \in SeqsUpTo(TableRows, MaxRows)}
      [] kind = "insert" -> {QueryRaises, Rows(<<>>)}
      [] kind = "last_id" ->
            {QueryRaises, Rows(<<>>), Rows(<<(<<(<<"n", 1>>)>>)>>)}
                \cup {Rows(<<(<<(<<"id", i>>)>>)>>) : i \in {0, 1, 2}}

Exec(name, repo, h, arg, ans) ==
    CASE name = "create"        -> create(repo, h, arg, ans)
      [] name = "get_or_create" -> get_or_create(repo, h, arg, ans)
      [] name = "filter"        -> filter(repo, h, arg, ans)
      [] name = "get"           -> get(repo, h, arg, ans)
      [] name = "save"          -> save(repo, h, arg, ans)
      [] name = "get_or_save"   -> get_or_save(repo, h, arg, ans)
      [] name = "save_all"      -> save_all(repo, h, arg, ans)
      [] name = "get_all"       -> get_all(repo, h, ans)

\* every complete run of an operation: the script is extended by one answer
\* of the awaited kind until the operation ends
RECURSIVE Complete(_, _, _, _, _)
Complete(name, repo, h, arg, ans) ==
    LET r == Exec(name, repo, h, arg, ans)
    IN  IF r.need = "" THEN {r}
        ELSE UNION {Complete(name, repo, h, arg, Append(ans, a)) :
                        a \in AnswersOf(r.need)}

Call(name, arg, r) ==
    [op |-> name, arg |-> arg, queries |-> r.queries, answers |-> r.answers,
     exc |-> r.exc, value |-> r.value]

NoCall == Call("", <<>>, Returns(Start(<<>>, <<>>), None))

\* no database that stores rows is attached
NoTable == [data |-> <<>>, rows |-> <<>>, last_insert_id |-> 0, calls |-> 0,
            inserts |-> 0, matching |-> <<>>]

---------------------------------------------------------------------------
(* Specification of the Repository operations: one repository, built for   *)
(* the entity of the tests with or without a table_name of its own         *)

Init ==
    \E decl \in {<<>>, <<(<<"table_name", "my_super_table_name">>)>>} :
        LET cs == <<[name |-> MyFakeEntity, base |-> 0, dict |-> decl]>>
            conn == Connect(<<>>, 0)
        IN  /\ classes = cs
            /\ repos = <<RepositoryInit(cs, 1, conn.db)>>
            /\ db_connections = conn.conns
            /\ db_count = conn.count
            /\ saved = [cls |-> 0, repo |-> 0]
            /\ heap = <<>>
            /\ call = NoCall
            /\ init_threads = <<>>
            /\ connection_lock = 0
            /\ table = NoTable

\* the caller's instance is the object 1
OneInstance(inst) == <<[cls |-> repos[1].model, attrs |-> inst]>>

\* Calls do not overlap: an operation starts when the caller holds no
\* outcome, and runs to its end.
Create ==
    /\ call.op = ""
    /\ \E data \in DataSet :
         \E r \in Complete("create", repos[1], <<>>, data, <<>>) :
            /\ call' = Call("create", data, r)
            /\ heap' = r.heap
    /\ UNCHANGED <<classes, repos, db_connections, db_count, saved,
                   init_threads, connection_lock, table>>

GetOrCreate ==
    /\ call.op = ""
    /\ \E data \in DataSet :
         \E r \in Complete("get_or_create", repos[1], <<>>, data, <<>>) :
            /\ call' = Call("get_or_create", data, r)
            /\ heap' = r.heap
    /\ UNCHANGED <<classes, repos, db_connections, db_count, saved,
                   init_threads, connection_lock, table>>

Filter ==
    /\ call.op = ""
    /\ \E data \in DataSet :
         \E r \in Complete("filter", repos[1], <<>>, data, <<>>) :
            /\ call' = Call("filter", data, r)
            /\ heap' = r.heap
    /\ UNCHANGED <<classes, repos, db_connections, db_count, saved,
                   init_threads, connection_lock, table>>

Get ==
    /\ call.op = ""
    /\ \E data \in DataSet :
         \E r \in Complete("get", repos[1], <<>>, data, <<>>) :
            /\ call' = Call("get", data, r)
            /\ heap' = r.heap
    /\ UNCHANGED <<classes, repos, db_connections, db_count, saved,
                   init_threads, connection_lock, table>>

Save ==
    /\ call.op = ""
    /\ \E inst \in Instances :
         \E r \in Complete("save", repos[1], OneInstance(inst), 1, <<>>) :
            /\ call' = Call("save", inst, r)
            /\ heap' = r.heap
    /\ UNCHANGED <<classes, repos, db_connections, db_count, saved,
                   init_threads, connection_lock, table>>

GetOrSave ==
    /\ call.op = ""
    /\ \E inst \in Instances :
         \E r \in Complete("get_or_save", repos[1], OneInstance(inst), 1, <<>>) :
            /\ call' = Call("get_or_save", inst, r)
            /\ heap' = r.heap
    /\ UNCHANGED <<classes, repos, db_connections, db_count, saved,
                   init_threads, connection_lock, table>>

\* the instances of the collection are the objects 1, 2, ...
SaveAll ==
    /\ call.op = ""
    /\ \E coll \in Collections :
         LET h == [i \in 1..Len(coll) |-> [cls |-> repos[1].model, attrs |-> coll[i]]]
             refs == [i \in 1..Len(coll) |-> i]
         IN  \E r \in Complete("save_all", repos[1], h, refs, <<>>) :
                /\ call' = Call("save_all", coll, r)
                /\ heap' = r.heap
    /\ UNCHANGED <<classes, repos, db_connections, db_count, saved,
                   init_threads, connection_lock, table>>

GetAll ==
    /\ call.op = ""
    /\ \E r \in Complete("get_all", repos[1], <<>>, <<>>, <<>>) :
            /\ call' = Call("get_all", <<>>, r)
            /\ heap' = r.heap
    /\ UNCHANGED <<classes, repos, db_connections, db_count, saved,
                   init_threads, connection_lock, table>>

\* the caller takes the outcome and drops its references
Release ==
    /\ call.op # ""
    /\ call' = NoCall
    /\ heap' = <<>>
    /\ UNCHANGED <<classes, repos, db_connections, db_count, saved,
                   init_threads, connection_lock, table>>

Next ==
    \/ Create
    \/ GetOrCreate
    \/ Filter
    \/ Get
    \/ Save
    \/ GetOrSave
    \/ SaveAll
    \/ GetAll
    \/ Release

Spec == Init /\ [][Next]_vars

---------------------------------------------------------------------------
(* The decorator model, and the classes it is applied to *)

\* model(entity) applied to the class c.  dataclass(entity) returns the same
\* class; objects is looked up with hasattr, so through the base class too;
\* the two lambdas close over the class itself.
model(cs, rs, conns, count, c) ==
    LET inject == ~HasAttr(cs, c, "objects")
        conn   == Connect(conns, count)
        rs2    == IF inject THEN Append(rs, RepositoryInit(cs, c, conn.db)) ELSE rs
        d1     == IF inject THEN Put(cs[c].dict, "objects", Len(rs2)) ELSE cs[c].dict
        d2     == Put(Put(d1, "save", c), "get_or_save", c)
    IN  [classes |-> [cs EXCEPT ![c].dict = d2],
         repos   |-> rs2,
         conns   |-> IF inject THEN conn.conns ELSE conns,
         count   |-> IF inject THEN conn.count ELSE count]

\* instance.save() on an instance of the class c: the function found on the
\* class is the lambda of some decorated class e, which calls e.objects.save
SaveTarget(cs, c) ==
    LET e == GetAttr(cs, c, "save")
    IN  [cls |-> c, repo |-> GetAttr(cs, e, "objects")]

\* class names: the entity of the tests and every short name over a few
\* letters
MaxNameLen == 2
NameLetters == {"M", "F", "y"}
ClassNames == {MyFakeEntity} \cup (SeqsUpTo(NameLetters, MaxNameLen) \ {<<>>})
Declared == {<<>>, <<(<<"table_name", "my_super_table_name">>)>>}

InitModel ==
    /\ classes = <<>>
    /\ repos = <<>>
    /\ db_connections = <<>>
    /\ db_count = 0
    /\ saved = [cls |-> 0, repo |-> 0]
    /\ heap = <<>>
    /\ call = NoCall
    /\ init_threads = <<>>
    /\ connection_lock = 0
    /\ table = NoTable

\* the class statements: a new name, a base class or none, with or without
\* a table_name in the body
ClassStatements ==
    {[name |-> name, base |-> base, dict |-> decl] :
        name \in ClassNames \ {classes[i].name : i \in 1..Len(classes)},
        base \in 0..Len(classes),
        decl \in Declared}

\* class <name>(<base>): ...
DefineClass ==
    /\ Len(classes) < MaxClasses
    /\ \E cls \in ClassStatements : classes' = Append(classes, cls)
    /\ UNCHANGED <<repos, db_connections, db_count, saved, heap, call,
                   init_threads, connection_lock, table>>

\* @model
\* class <name>(<base>): ...
DefineModel ==
    /\ Len(classes) < MaxClasses
    /\ \E cls \in ClassStatements :
          LET cs == Append(classes, cls)
              c  == Len(cs)
              m  == model(cs, repos, db_connections, db_count, c)
          IN  /\ HasAttr(cs, c, "objects") \/ Len(repos) < MaxRepos
              /\ classes' = m.classes
              /\ repos' = m.repos
              /\ db_connections' = m.conns
              /\ db_count' = m.count
    /\ UNCHANGED <<saved, heap, call, init_threads, connection_lock, table>>

\* Repository(c)
NewRepository ==
    /\ Len(repos) < MaxRepos
    /\ \E c \in 1..Len(classes) :
          LET conn == Connect(db_connections, db_count)
          IN  /\ repos' = Append(repos, RepositoryInit(classes, c, conn.db))
              /\ db_connections' = conn.conns
              /\ db_count' = conn.count
    /\ UNCHANGED <<classes, saved, heap, call,
                   init_threads, connection_lock, table>>

\* instance.save() on an instance of a class that has the method
InstanceSave ==
    /\ \E c \in 1..Len(classes) :
          /\ HasAttr(classes, c, "save")
          /\ saved' = SaveTarget(classes, c)
    /\ UNCHANGED <<classes, repos, db_connections, db_count, heap, call,
                   init_threads, connection_lock, table>>

NextModel ==
    \/ DefineClass
    \/ DefineModel
    \/ NewRepository
    \/ InstanceSave

SpecModel == InitModel /\ [][NextModel]_vars

---------------------------------------------------------------------------
(* Properties of the Repository operations *)

\* text contains the fragment
Contains(text, frag) ==
    \E i \in 1..(Len(text) - Len(frag) + 1) :
        SubSeq(text, i, i + Len(frag) - 1) = frag

\* the statement sent by a query, without the layout around it
Statement(q) == SubSeq(q.sql, Len(NL12) + 1, Len(q.sql))
StartsWith(text, frag) == SubSeq(text, 1, Len(frag)) = frag
IsInsert(q) == StartsWith(Statement(q), "INSERT INTO ")
IsSelect(q) == StartsWith(Statement(q), "SELECT * FROM ")

NoAnswerRaises == \A i \in 1..Len(call.answers) : ~call.answers[i].raises
Returned == call.op # "" /\ call.exc = ""
FirstRows == call.answers[1].rows
TheInstance(ref) == heap[ref]
Built(row) == [cls |-> repos[1].model, attrs |-> row]

\* the list "a, b, c" of up to three items, written out
Listed(items) ==
    CASE Len(items) = 0 -> ""
      [] Len(items) = 1 -> items[1]
      [] Len(items) = 2 -> items[1] \o ", " \o items[2]
      [] Len(items) = 3 -> items[1] \o ", " \o items[2] \o ", " \o items[3]

\* the SELECT by data: one condition key=:key per key, joined by AND
IsSelectBy(q, data) ==
    /\ q.params = data
    /\ Contains(q.sql, "SELECT * FROM " \o repos[1].table_name \o " WHERE ")
    /\ \A i \in 1..Len(data) : Contains(q.sql, data[i][1] \o "=:" \o data[i][1])
    /\ ~IsInsert(q)

\* the INSERT of data
IsInsertOf(q, data) ==
    /\ q.params = data
    /\ Contains(q.sql, "INSERT INTO " \o repos[1].table_name
                          \o "(" \o Listed(Keys(data)) \o ")")
    /\ Contains(q.sql, "VALUES ("
                          \o Listed([i \in 1..Len(data) |-> ":" \o data[i][1]])
                          \o ")")
    /\ IsInsert(q)

\* C1: when the SELECT by data of get_or_create returns at least one row,
\* that SELECT is the only query, no INSERT is issued, and the operation
\* returns an instance built from the first row.
C1_FoundIssuesOneQuery ==
    (/\ call.op = "get_or_create"
     /\ ~call.answers[1].raises
     /\ FirstRows # <<>>)
    => /\ Len(call.queries) = 1
       /\ IsSelectBy(call.queries[1], call.arg)
       /\ \A i \in 1..Len(call.queries) : ~IsInsert(call.queries[i])
       /\ Returned
       /\ TheInstance(call.value) = Built(FirstRows[1])

C1_Witness ==
    /\ call.op = "get_or_create"
    /\ ~call.answers[1].raises
    /\ Len(FirstRows) = 2
    /\ FirstRows[1] # FirstRows[2]
    /\ Returned

\* the four queries of get_or_create when nothing is found, as far as they
\* were issued: SELECT by data, INSERT of data, SELECT LAST_INSERT_ID(), and
\* SELECT ... WHERE id=:id with the id that the third query gave
NotFoundQuery(n) ==
    LET q == call.queries[n]
    IN  CASE n = 1 -> IsSelectBy(q, call.arg)
          [] n = 2 -> IsInsertOf(q, call.arg)
          [] n = 3 -> /\ Contains(q.sql, "SELECT LAST_INSERT_ID() as id")
                      /\ q.params = <<>>
          [] n = 4 -> /\ Contains(q.sql, "SELECT * FROM " \o repos[1].table_name
                                            \o " WHERE id=:id")
                      /\ q.params = <<(<<"id", LastIdValue(call.answers[3].rows)>>)>>
                      /\ ~IsInsert(q)
          [] OTHER -> FALSE

NotFound ==
    /\ call.op = "get_or_create"
    /\ ~call.answers[1].raises
    /\ FirstRows = <<>>

\* C2 as stated: when the SELECT by data returns no row (and no query
\* raises), get_or_create issues the four queries in order and returns an
\* instance built from the first row of the fourth.
C2_NotFoundReturnsInstance ==
    (NotFound /\ NoAnswerRaises)
    => /\ Len(call.queries) = 4
       /\ \A n \in 1..4 : NotFoundQuery(n)
       /\ Returned
       /\ call.answers[4].rows # <<>>
       /\ TheInstance(call.value) = Built(call.answers[4].rows[1])

\* C2 amended: when the SELECT by data returns no row, the queries issued
\* are, in order, the four queries; all four are issued when no query
\* raises, and then the operation returns an instance built from the first
\* row of the fourth query if it has one, and raises IndexError if not.
C2_NotFoundFourQueries ==
    NotFound
    => /\ \A n \in 1..Len(call.queries) : NotFoundQuery(n)
       /\ NoAnswerRaises
          => /\ Len(call.queries) = 4
             /\ IF call.answers[4].rows # <<>>
                THEN /\ Returned
                     /\ TheInstance(call.value) = Built(call.answers[4].rows[1])
                ELSE call.exc = "IndexError"

C2_Witness ==
    /\ NotFound
    /\ NoAnswerRaises
    /\ Len(call.queries) = 4
    /\ Len(call.answers[4].rows) = 2
    /\ LastIdValue(call.answers[3].rows) = 2
    /\ Returned

\* C3: create issues exactly one query, an INSERT INTO the table whose
\* column list is the keys of data in their order joined by ', ', whose
\* VALUES list is ':key' for the same keys, and whose parameters are data.
C3_CreateIssuesOneInsert ==
    call.op = "create"
    => /\ Len(call.queries) = 1
       /\ IsInsertOf(call.queries[1], call.arg)
       /\ (/\ Keys(call.arg) = <<"id", "title", "content">>
           /\ repos[1].table_name = "my_fake_entity")
          => /\ Contains(call.queries[1].sql,
                         "INSERT INTO my_fake_entity(id, title, content)")
             /\ Contains(call.queries[1].sql, "VALUES (:id, :title, :content)")

C3_Witness ==
    /\ call.op = "create"
    /\ Keys(call.arg) = <<"id", "title", "content">>
    /\ repos[1].table_name = "my_fake_entity"
    /\ Len(call.queries) = 1

\* C4: create returns an instance for every data: built from data when data
\* has an id, and from data plus the last auto-generated id when it has none.
C4_CreateReturnsInstance ==
    (call.op = "create" /\ NoAnswerRaises)
    => /\ Returned
       /\ IF HasKey(call.arg, "id")
          THEN TheInstance(call.value) = Built(call.arg)
          ELSE /\ SubSeq(TheInstance(call.value).attrs, 1, Len(call.arg)) = call.arg
               /\ HasKey(TheInstance(call.value).attrs, "id")

\* C5: the first query of save is an INSERT whose columns and parameters
\* are the fields of the instance that are not None; when no query raises,
\* the instance handed in is returned, its id is the last auto-generated id
\* if the id was falsy and is untouched if not, and the other fields are
\* untouched.
C5_SaveInsertsNotNoneFields ==
    call.op = "save"
    => LET q == call.queries[1]
           before == call.arg
       IN  /\ IsInsertOf(q, q.params)
           /\ \A i \in 1..Len(Fields) :
                 HasKey(q.params, Fields[i]) <=> Item(before, Fields[i]) # None
           /\ \A i \in 1..Len(q.params) :
                 q.params[i][2] = Item(before, q.params[i][1])
           /\ \A i \in 2..Len(call.queries) : ~IsInsert(call.queries[i])
           /\ NoAnswerRaises
              => /\ Returned
                 /\ call.value = 1
                 /\ Len(heap) = 1
                 /\ Item(heap[1].attrs, "title") = Item(before, "title")
                 /\ Item(heap[1].attrs, "content") = Item(before, "content")
                 /\ IF Falsy(Item(before, "id"))
                    THEN /\ Len(call.queries) = 2
                         /\ Item(heap[1].attrs, "id")
                               = LastIdValue(call.answers[2].rows)
                    ELSE /\ Len(call.queries) = 1
                         /\ Item(heap[1].attrs, "id") = Item(before, "id")

C5_Witness ==
    /\ call.op = "save"
    /\ Item(call.arg, "id") = None
    /\ Item(call.arg, "content") = None
    /\ Item(call.arg, "title") = 1
    /\ NoAnswerRaises
    /\ Item(heap[1].attrs, "id") = 2

\* C7: get issues one SELECT by data; when no query raises it returns None
\* if there is no row, and otherwise an instance built from the first row,
\* which is the first element of what filter returns for the same answer.
C7_GetIsFirstOfFilter ==
    call.op = "get"
    => /\ Len(call.queries) = 1
       /\ IsSelectBy(call.queries[1], call.arg)
       /\ NoAnswerRaises
          => /\ Returned
             /\ IF FirstRows = <<>>
                THEN call.value = None /\ heap = <<>>
                ELSE LET f == filter(repos[1], <<>>, call.arg, call.answers)
                     IN  /\ TheInstance(call.value) = Built(FirstRows[1])
                         /\ Len(heap) = 1
                         /\ TheInstance(call.value) = f.heap[f.value[1]]

C7_Witness ==
    /\ call.op = "get"
    /\ NoAnswerRaises
    /\ Len(FirstRows) = 2
    /\ FirstRows[1] # FirstRows[2]
    /\ call.value # None

\* C8: filter and get_all issue one SELECT and no INSERT; when it does not
\* raise they return a list with one new instance per row, in the order of
\* the rows, each built from its row; the list is empty when there is no row.
C8_OneInstancePerRow ==
    call.op \in {"filter", "get_all"}
    => /\ Len(call.queries) = 1
       /\ IsSelect(call.queries[1])
       /\ ~IsInsert(call.queries[1])
       /\ call.op = "filter" => IsSelectBy(call.queries[1], call.arg)
       /\ NoAnswerRaises
          => /\ Returned
             /\ Len(call.value) = Len(FirstRows)
             /\ Len(heap) = Len(FirstRows)
             /\ \A i \in 1..Len(FirstRows) :
                   TheInstance(call.value[i]) = Built(FirstRows[i])
             /\ \A i, j \in 1..Len(call.value) :
                   i # j => call.value[i] # call.value[j]

C8_Witness ==
    /\ call.op = "filter"
    /\ NoAnswerRaises
    /\ Len(FirstRows) = 2
    /\ FirstRows[1] # FirstRows[2]
    /\ Len(call.value) = 2

\* the row that get_or_save found, or fetched after the INSERT
FinalRows == call.answers[Len(call.answers)].rows

\* C9: get_or_save selects by the fields that are not None, inserts only
\* if nothing is found, returns the instance handed in, and afterwards every
\* attribute named by a column of the row found or fetched, the id included,
\* has the value of that row.  Stated for an instance that has no id yet and
\* for the runs in which no query raises and the row found or fetched has
\* the values of the instance in the columns selected by.
C9_GetOrSaveFillsFromRow ==
    (/\ call.op = "get_or_save"
     /\ NotNone(call.arg) # <<>>
     /\ Item(call.arg, "id") = None
     /\ NoAnswerRaises
     /\ FinalRows # <<>>
     /\ \A j \in 1..Len(NotNone(call.arg)) :
           Item(FinalRows[1], NotNone(call.arg)[j][1]) = NotNone(call.arg)[j][2])
    => /\ IsSelectBy(call.queries[1], NotNone(call.arg))
       /\ IF FirstRows # <<>>
          THEN Len(call.queries) = 1
          ELSE /\ Len(call.queries) = 4
               /\ IsInsertOf(call.queries[2], NotNone(call.arg))
               /\ ~IsInsert(call.queries[3]) /\ ~IsInsert(call.queries[4])
       /\ Returned
       /\ call.value = 1
       /\ \A i \in 1..Len(FinalRows[1]) :
             Item(heap[1].attrs, FinalRows[1][i][1]) = FinalRows[1][i][2]

---------------------------------------------------------------------------
(* Properties of the table name and of the decorator *)

\* the class name split on capital-letter boundaries, the parts joined with
\* underscores and lower-cased: an underscore goes before every capital
\* letter but the first character
RECURSIVE SplitOnCapitals(_, _)
SplitOnCapitals(name, i) ==
    IF i > Len(name) THEN ""
    ELSE (IF i > 1 /\ IsUpper(name[i]) THEN "_" ELSE "")
            \o LowerChar(name[i]) \o SplitOnCapitals(name, i + 1)

RECURSIVE WithoutUnderscores(_)
WithoutUnderscores(text) ==
    IF Len(text) = 0 THEN ""
    ELSE (IF SubSeq(text, 1, 1) = "_" THEN "" ELSE SubSeq(text, 1, 1))
            \o WithoutUnderscores(SubSeq(text, 2, Len(text)))

\* C6: the table name of a repository is the table_name the class declares,
\* and otherwise the class name split on capital-letter boundaries, joined
\* with underscores and lower-cased, so that without the underscores it is
\* the lower-cased class name.
C6_TableNameFromClassName ==
    \A i \in 1..Len(repos) :
        LET r == repos[i]
        IN  IF HasAttr(classes, r.model, "table_name")
            THEN r.table_name = GetAttr(classes, r.model, "table_name")
            ELSE /\ r.table_name = SplitOnCapitals(r.model_name, 1)
                 /\ WithoutUnderscores(r.table_name) = Str(Lower(r.model_name))

\* the class c went through the decorator
Decorated(c) == HasKey(classes[c].dict, "save")

\* C10: every decorated class, a subclass of a decorated class included, has
\* as objects a Repository whose model is that class, and instance.save()
\* calls the save of the objects of the instance's class.
C10_ObjectsIsRepositoryOfClass ==
    /\ \A c \in 1..Len(classes) :
          Decorated(c)
          => /\ HasAttr(classes, c, "objects")
             /\ repos[GetAttr(classes, c, "objects")].model = c
    /\ (saved.cls # 0 /\ Decorated(saved.cls))
          => saved.repo = GetAttr(classes, saved.cls, "objects")

---------------------------------------------------------------------------
(* Failures of the Repository operations *)

Failed == call.op # "" /\ call.exc # ""
LastAnswerRaises ==
    Len(call.answers) > 0 /\ call.answers[Len(call.answers)].raises

\* the exception of the library reaches the caller as it was raised, and the
\* query that raised is the last one the operation issued
Propagated ==
    /\ Len(call.queries) = Len(call.answers)
    /\ \A i \in 1..Len(call.answers) :
          call.answers[i].raises =>
              /\ i = Len(call.answers)
              /\ call.exc \in LibraryErrors

\* C12 as stated, on the operations other than create (the failure of create
\* after its INSERT is the subject of C4): every failure of an operation,
\* the case where no row is returned after an insert included, is an
\* exception raised by the query library and propagated unmodified; no
\* exception originates in Repository, none is swallowed, and no query
\* follows the one that raised.
C12_FailuresComeFromLibrary ==
    (call.op # "" /\ call.op # "create") =>
        /\ Propagated
        /\ Failed => (call.exc \in LibraryErrors /\ LastAnswerRaises)

\* C12, amended: an exception raised by a query reaches the caller
\* unmodified and no query follows it.  The other failures originate in the
\* code of Repository: IndexError in get_or_create and get_or_save when the
\* SELECT after the INSERT returns no row, and AttributeError in create when
\* data has no id and the INSERT did not raise.
C12_FailuresPropagateOrOriginate ==
    call.op # "" =>
        /\ Propagated
        /\ call.exc \in {""} \cup LibraryErrors \cup OwnErrors
        /\ call.exc \in LibraryErrors => LastAnswerRaises
        /\ call.exc = "IndexError" =>
              /\ call.op \in {"get_or_create", "get_or_save"}
              /\ Len(call.queries) = 4
              /\ IsInsert(call.queries[2])
              /\ NoAnswerRaises
              /\ call.answers[4].rows = <<>>
        /\ call.exc = "AttributeError" =>
              /\ call.op = "create"
              /\ ~HasKey(call.arg, "id")
              /\ Len(call.queries) = 1
              /\ NoAnswerRaises
        /\ call.op \in {"filter", "get", "save", "save_all", "get_all"} =>
              (Failed <=> LastAnswerRaises)

\* save_all fails on its second instance, by the exception of its last query
C12_Witness ==
    /\ call.op = "save_all"
    /\ Len(call.arg) = 2
    /\ Len(call.queries) >= 3
    /\ call.exc \in LibraryErrors
    /\ LastAnswerRaises

---------------------------------------------------------------------------
(* Repository.__init__ run by several threads, statement by statement.     *)
(* connection_lock is an attribute of the class, so every thread uses the  *)
(* same lock; _db_connections is the dict of the module.                   *)

MaxThreads == 3     \* threads that each construct one Repository

Threads == 1..MaxThreads

\* self._connection_key is None or a str; None is written as the empty str
NoKey == ""

\* `if not self._connection_key`
NotKey(key) == key = NoKey

\* a thread that only reads and never replaces: setdefault in place of the
\* assignment
StoreIfAbsent(conns, key, db) ==
    IF HasKey(conns, key) THEN conns ELSE Put(conns, key, db)

\* _db_connections[self._connection_key] = <the new Database>
Store(conns, key, db) == Put(conns, key, db)

\* a lock that never blocks
AcquiresAlways(holder) == TRUE

\* connection_lock.acquire() returns when no thread holds the lock
Acquires(holder) == holder = 0

At(t, pc) == init_threads[t].pc = pc

InitThreads ==
    \E decl \in {<<>>, <<(<<"table_name", "my_super_table_name">>)>>} :
        /\ classes = <<[name |-> MyFakeEntity, base |-> 0, dict |-> decl]>>
        /\ repos = <<>>
        /\ db_connections = <<>>
        /\ db_count = 0
        /\ saved = [cls |-> 0, repo |-> 0]
        /\ heap = <<>>
        /\ call = NoCall
        /\ init_threads = [t \in Threads |->
                             [pc |-> "call", connection_key |-> NoKey,
                              created |-> 0, db |-> 0]]
        /\ connection_lock = 0
        /\ table = NoTable

\* self._connection_key = None
ResetKey(t) ==
    /\ At(t, "call")
    /\ init_threads' = [init_threads EXCEPT ![t].connection_key = NoKey,
                                            ![t].pc = "with"]
    /\ UNCHANGED <<classes, repos, db_connections, db_count, saved, heap,
                   call, connection_lock, table>>

\* with self.connection_lock:
AcquireLock(t) ==
    /\ At(t, "with")
    /\ Acquires(connection_lock)
    /\ connection_lock' = t
    /\ init_threads' = [init_threads EXCEPT ![t].pc = "if"]
    /\ UNCHANGED <<classes, repos, db_connections, db_count, saved, heap,
                   call, table>>

\* if not self._connection_key:
TestKey(t) ==
    /\ At(t, "if")
    /\ init_threads' =
          [init_threads EXCEPT ![t].pc =
              IF NotKey(init_threads[t].connection_key) THEN "key" ELSE "read"]
    /\ UNCHANGED <<classes, repos, db_connections, db_count, saved, heap,
                   call, connection_lock, table>>

\* self._connection_key = 'default'
SetKey(t) ==
    /\ At(t, "key")
    /\ init_threads' = [init_threads EXCEPT ![t].connection_key = "default",
                                            ![t].pc = "create"]
    /\ UNCHANGED <<classes, repos, db_connections, db_count, saved, heap,
                   call, connection_lock, table>>

\* records.Database(): the right-hand side of the assignment
CreateDatabase(t) ==
    /\ At(t, "create")
    /\ db_count' = db_count + 1
    /\ init_threads' = [init_threads EXCEPT ![t].created = db_count + 1,
                                            ![t].pc = "store"]
    /\ UNCHANGED <<classes, repos, db_connections, saved, heap, call,
                   connection_lock, table>>

\* _db_connections[self._connection_key] = ...
StoreDatabase(t) ==
    /\ At(t, "store")
    /\ db_connections' = Store(db_connections, init_threads[t].connection_key,
                               init_threads[t].created)
    /\ init_threads' = [init_threads EXCEPT ![t].pc = "read"]
    /\ UNCHANGED <<classes, repos, db_count, saved, heap, call,
                   connection_lock, table>>

\* self._db = _db_connections[self._connection_key]
ReadDatabase(t) ==
    /\ At(t, "read")
    /\ init_threads' =
          [init_threads EXCEPT
              ![t].db = Item(db_connections, init_threads[t].connection_key),
              ![t].pc = "exit"]
    /\ UNCHANGED <<classes, repos, db_connections, db_count, saved, heap,
                   call, connection_lock, table>>

\* the end of the with block
ReleaseLock(t) ==
    /\ At(t, "exit")
    /\ connection_lock' = 0
    /\ init_threads' = [init_threads EXCEPT ![t].pc = "attributes"]
    /\ UNCHANGED <<classes, repos, db_connections, db_count, saved, heap,
                   call, table>>

\* self.model, self.model_name, self.table_name: the constructor returns
SetAttributes(t) ==
    /\ At(t, "attributes")
    /\ repos' = Append(repos, RepositoryInit(classes, 1, init_threads[t].db))
    /\ init_threads' = [init_threads EXCEPT ![t].pc = "done"]
    /\ UNCHANGED <<classes, db_connections, db_count, saved, heap, call,
                   connection_lock, table>>

NextThreads ==
    \/ \E t \in Threads : ResetKey(t)
    \/ \E t \in Threads : AcquireLock(t)
    \/ \E t \in Threads : TestKey(t)
    \/ \E t \in Threads : SetKey(t)
    \/ \E t \in Threads : CreateDatabase(t)
    \/ \E t \in Threads : StoreDatabase(t)
    \/ \E t \in Threads : ReadDatabase(t)
    \/ \E t \in Threads : ReleaseLock(t)
    \/ \E t \in Threads : SetAttributes(t)

SpecThreads == InitThreads /\ [][NextThreads]_vars

\* the threads that have created their Database, and those that have read
\* self._db
Created == {t \in Threads : init_threads[t].created # 0}
HasRead == {t \in Threads : init_threads[t].pc \in {"exit", "attributes", "done"}}
PastTest == {t \in Threads : init_threads[t].pc \notin {"call", "with", "if"}}

\* C11: every construction takes the connection branch: it creates a new
\* Database and stores it under 'default' in place of the previous one.  So
\* the number of Database objects created is the number of constructions
\* that have passed the branch, a constructor that reads self._db finds its
\* own Database under 'default', and the dict has no other key.
C11_EveryConstructionCreatesDatabase ==
    /\ \A t \in PastTest :
          init_threads[t].pc = "key" \/ init_threads[t].connection_key = "default"
    /\ \A t \in PastTest :
          init_threads[t].pc \notin {"key", "create"} => t \in Created
    /\ db_count = Cardinality(Created)
    /\ \A t \in Threads :
          At(t, "read") => db_connections = <<(<<"default", init_threads[t].created>>)>>
    /\ \A i \in 1..Len(db_connections) : db_connections[i][1] = "default"
    /\ Len(db_connections) <= 1
    /\ (\A t \in Threads : At(t, "done")) =>
          /\ Len(repos) = MaxThreads
          /\ db_count = MaxThreads

\* a second construction has replaced the Database of the first
C11_Witness ==
    /\ Len(repos) >= 1
    /\ \E t \in Threads : At(t, "read") /\ init_threads[t].created >= 2

\* C14: in every interleaving the creation of the Database, its storage and
\* the read into self._db are done by one thread at a time, the holder of
\* connection_lock; so the _db of every repository is the Database its own
\* constructor created, and no two repositories hold the same Database.
C14_OwnDatabasePerRepository ==
    /\ \A t \in Threads :
          init_threads[t].pc \in {"if", "key", "create", "store", "read", "exit"}
              => connection_lock = t
    /\ \A t \in HasRead :
          /\ init_threads[t].db = init_threads[t].created
          /\ init_threads[t].db # 0
    /\ \A t, u \in HasRead : t # u => init_threads[t].db # init_threads[u].db
    /\ \A i, j \in 1..Len(repos) : i # j => repos[i].db # repos[j].db

\* a thread has read its Database while another waits for the lock, after a
\* first repository was constructed
C14_Witness ==
    /\ Len(repos) >= 1
    /\ \E t, u \in Threads : At(t, "exit") /\ At(u, "with")

---------------------------------------------------------------------------
(* get_or_create against a database that stores rows: one table with the   *)
(* columns of the entity and an auto-generated id.  An INSERT stores its   *)
(* row, a SELECT returns the stored rows that match its parameters, and    *)
(* LAST_INSERT_ID() is the last id the database generated, 0 if none.      *)

MaxCalls == 3       \* calls made one after the other

\* the row agrees with every parameter of the WHERE clause
Matches(row, params) ==
    \A i \in 1..Len(params) :
        HasKey(row, params[i][1]) /\ Item(row, params[i][1]) = params[i][2]

Matching(rows, params) == SelectSeq(rows, LAMBDA row : Matches(row, params))

\* the next auto-generated id: one more than the largest id stored
NextId(rows) ==
    LET ids == {0} \cup {Item(rows[i], "id") : i \in 1..Len(rows)}
    IN  1 + CHOOSE m \in ids : \A n \in ids : n <= m

\* the row an INSERT with these parameters stores
StoredRow(rows, params) ==
    LET value(col) == IF HasKey(params, col) THEN Item(params, col) ELSE None
    IN  << <<"id", IF HasKey(params, "id") THEN Item(params, "id")
                   ELSE NextId(rows)>>,
           <<"title", value("title")>>,
           <<"content", value("content")>> >>

\* the answer of the database to a query, and the database after it
Answer(tab, kind, params) ==
    CASE kind = "select" ->
            [answer |-> Rows(Matching(tab.rows, params)), table |-> tab]
      [] kind = "insert" ->
            LET row == StoredRow(tab.rows, params)
            IN  [answer |-> Rows(<<>>),
                 table  |-> [tab EXCEPT
                               !.rows = Append(@, row),
                               !.inserts = @ + 1,
                               !.last_insert_id =
                                   IF HasKey(params, "id") THEN @
                                   ELSE Item(row, "id")]]
      [] kind = "last_id" ->
            [answer |-> Rows(<<(<<(<<"id", tab.last_insert_id>>)>>)>>),
             table  |-> tab]

\* an operation run to its end, each query answered by the database
RECURSIVE RunOn(_, _, _, _, _, _)
RunOn(name, repo, h, arg, tab, ans) ==
    LET r == Exec(name, repo, h, arg, ans)
    IN  IF r.need = "" THEN [r |-> r, table |-> tab]
        ELSE LET a == Answer(tab, r.need, r.pending.params)
             IN  RunOn(name, repo, h, arg, a.table, Append(ans, a.answer))

\* the table holds no row or one row; the data of the calls is chosen once
InitTable ==
    \E data \in DataSet, rows \in SeqsUpTo(TableRows, 1) :
        LET cs == <<[name |-> MyFakeEntity, base |-> 0, dict |-> <<>>]>>
            conn == Connect(<<>>, 0)
        IN  /\ classes = cs
            /\ repos = <<RepositoryInit(cs, 1, conn.db)>>
            /\ db_connections = conn.conns
            /\ db_count = conn.count
            /\ saved = [cls |-> 0, repo |-> 0]
            /\ heap = <<>>
            /\ call = NoCall
            /\ init_threads = <<>>
            /\ connection_lock = 0
            /\ table = [NoTable EXCEPT
                          !.data = data,
                          !.rows = rows,
                          !.matching = <<Len(Matching(rows, data))>>]

\* one more call of get_or_create(**data), after the previous one has ended;
\* the number of matching rows is noted when it ends
GetOrCreateStored ==
    /\ table.calls < MaxCalls
    /\ LET run == RunOn("get_or_create", repos[1], <<>>, table.data, table, <<>>)
       IN  /\ call' = Call("get_or_create", table.data, run.r)
           /\ heap' = run.r.heap
           /\ table' = [run.table EXCEPT
                          !.calls = @ + 1,
                          !.matching =
                              Append(@, Len(Matching(run.table.rows, table.data)))]
    /\ UNCHANGED <<classes, repos, db_connections, db_count, saved,
                   init_threads, connection_lock>>

NextTable == GetOrCreateStored

SpecTable == InitTable /\ [][NextTable]_vars

\* C15: against a database that stores every inserted row and returns it to
\* later matching SELECTs, a sequence of calls get_or_create(**data) with
\* the same data issues at most one INSERT in all, issued by a call that
\* found no matching row; so the number of rows matching data does not grow
\* after the first call has returned.
C15_AtMostOneInsert ==
    /\ table.inserts <= 1
    /\ table.inserts = 1 => table.matching[1] = 0
    /\ \A i \in 2..Len(table.matching) : table.matching[i] = table.matching[2]
    /\ (table.calls >= 1 /\ Len(call.queries) > 1) => table.calls = 1

\* the first call inserted, and two more calls found the row
C15_Witness ==
    /\ table.calls = 3
    /\ table.inserts = 1
    /\ table.matching = <<0, 1, 1, 1>>
    /\ Len(call.queries) = 1

---------------------------------------------------------------------------
(* zentity.core, the second copy of the package: save and get_or_save      *)
(* resolve the fields that hold an instance of a model into foreign keys.  *)
(* An object here carries, beside its attributes, the names of those that  *)
(* hold a reference to another object (the value is then its index in the  *)
(* heap): Python knows it from type(value).                                *)

MaxMentors == 1     \* authors below the first author of a chain

\* is_model(entity): the class has objects, and objects is a Repository
is_model(cs, c) == HasAttr(cs, c, "objects")

\* value.get_or_save() on an instance of class c: the lambda found on the
\* class calls get_or_save of the repository of the class it closes over
RepositoryOf(c) ==
    repos[GetAttr(classes, GetAttr(classes, c, "get_or_save"), "objects")]

\* a variant that adds the foreign key and keeps the field
AddForeignKey(data, key, id) == Append(data, <<key \o "_id", id>>)

\* del data[key]; data[f"{key}_id"] = value.id
ForeignKey(data, key, id) ==
    Put(SelectSeq(data, LAMBDA p : p[1] # key), key \o "_id", id)

\* F applied to the value of v, which is evaluated once
Once(v, F(_)) == CHOOSE r \in {F(x) : x \in {v}} : TRUE

RECURSIVE Resolve(_, _, _, _)
RECURSIVE get_or_save_in(_, _, _)

\* for key, value in instance.__dict__.items(), from the i-th item on: the
\* state after the loop and the data it leaves
Resolve(st, ref, i, data) ==
    IF Stopped(st) \/ i > Len(st.heap[ref].attrs) THEN [st |-> st, data |-> data]
    ELSE LET key   == st.heap[ref].attrs[i][1]
             value == st.heap[ref].attrs[i][2]
         IN  IF /\ key \in st.heap[ref].refs
                /\ value # None
                /\ is_model(classes, st.heap[value].cls)
             THEN Once(get_or_save_in(RepositoryOf(st.heap[value].cls), st, value),
                       LAMBDA st1 :
                          IF Stopped(st1) THEN [st |-> st1, data |-> data]
                          ELSE Resolve(st1, ref, i + 1,
                                       ForeignKey(data, key,
                                                  Item(st1.heap[value].attrs, "id"))))
             ELSE Resolve(st, ref, i + 1, data)

\* the instance's own queries of get_or_save, with the data the loop left
OwnGetOrSave(repo, res, ref) ==
    Once(_get_all_by(repo, res.st, res.data), LAMBDA st1 :
    Once(IF ~Stopped(st1) /\ st1.rows = <<>>
         THEN _get_last(repo, _create(repo, st1, res.data))
         ELSE st1, LAMBDA st2 :
            IF Stopped(st2) THEN st2
            ELSE IF st2.rows = <<>> THEN Raise(st2, "IndexError")
            ELSE SetAll(st2, ref, Diffs(st2.rows[1], res.data))))

\* Repository.get_or_save of the second copy, within a running operation
get_or_save_in(repo, st, ref) ==
    Once(Resolve(st, ref, 1, NotNone(st.heap[ref].attrs)),
         LAMBDA res : OwnGetOrSave(repo, res, ref))

zentity_get_or_save(repo, h, ref, ans) ==
    Returns(get_or_save_in(repo, Start(h, ans), ref), ref)

\* the instance's own queries of save, with the data the loop left
OwnSave(repo, res, ref) ==
    Once(_create(repo, res.st, res.data), LAMBDA st1 :
        IF ~Stopped(st1) /\ Falsy(Item(st1.heap[ref].attrs, "id"))
        THEN Once(_last_id(repo, st1), LAMBDA st :
                    IF Stopped(st) THEN st
                    ELSE SetAttr(st, ref, "id", LastIdValue(st.rows)))
        ELSE st1)

zentity_save(repo, h, ref, ans) ==
    IF ~is_model(classes, h[ref].cls) THEN Returns(Start(h, ans), ref)
    ELSE Once(Resolve(Start(h, ans), ref, 1, NotNone(h[ref].attrs)),
              LAMBDA res : Returns(OwnSave(repo, res, ref), ref))

\* the classes: Author, with a mentor that is an Author, and Book, with an
\* author, both models; Note, a dataclass that is no model
Author == <<"A", "u", "t", "h", "o", "r">>
Book == <<"B", "o", "o", "k">>
Note == <<"N", "o", "t", "e">>
AuthorClass == 1
BookClass == 2
NoteClass == 3

AuthorAt(i, mentor, id) ==
    [cls |-> AuthorClass,
     attrs |-> << <<"name", i>>, <<"mentor", mentor>>, <<"id", id>> >>,
     refs |-> {"mentor"}]
BookAt(i, author, id) ==
    [cls |-> BookClass,
     attrs |-> << <<"title", i>>, <<"author", author>>, <<"id", id>> >>,
     refs |-> {"author"}]
NoteAt(i) ==
    [cls |-> NoteClass, attrs |-> << <<"text", i>> >>, refs |-> {}]

\* n authors, each the mentor of the one before, behind `before` objects
Authors(before, n, id) ==
    [i \in 1..n |-> AuthorAt(before + i,
                             IF i = n THEN None ELSE before + i + 1,
                             IF i = 1 THEN id ELSE None)]

\* the graphs of instances handed to an operation; the object 1 is the
\* instance the operation is called with
Graphs ==
    UNION {{Authors(0, n, id) : n \in 1..(MaxMentors + 1)} : id \in {None, 2}}
    \cup UNION {{<<BookAt(1, IF n = 0 THEN None ELSE 2, id)>>
                    \o Authors(1, n, aid) :
                        n \in 0..(MaxMentors + 1), aid \in {None, 2}} :
                   id \in {None, 2}}
    \cup {<<BookAt(1, 2, None), NoteAt(2)>>, <<NoteAt(1)>>}

\* the rows the database may return for these tables, and its answers
LinkedRows == {<<(<<"id", i>>)>> : i \in {1, 2}}
AnswersLinked(kind) ==
    CASE kind = "select" ->
            {QueryRaises, Rows(<<>>)} \cup {Rows(<<row>>) : row \in LinkedRows}
      [] kind = "insert" -> {QueryRaises, Rows(<<>>)}
      [] kind = "last_id" -> {QueryRaises, Rows(<<(<<(<<"id", 1>>)>>)>>)}

ExecLinked(name, repo, h, ref, ans) ==
    CASE name = "save"        -> zentity_save(repo, h, ref, ans)
      [] name = "get_or_save" -> zentity_get_or_save(repo, h, ref, ans)

RECURSIVE CompleteLinked(_, _, _, _, _)
CompleteLinked(name, repo, h, ref, ans) ==
    LET r == ExecLinked(name, repo, h, ref, ans)
    IN  IF r.need = "" THEN {r}
        ELSE UNION {CompleteLinked(name, repo, h, ref, Append(ans, a)) :
                        a \in AnswersLinked(r.need)}

\* the three classes are defined, Author and Book decorated
InitLinked ==
    LET cs0 == <<[name |-> Author, base |-> 0, dict |-> <<>>],
                 [name |-> Book, base |-> 0, dict |-> <<>>],
                 [name |-> Note, base |-> 0, dict |-> <<>>]>>
        m1  == model(cs0, <<>>, <<>>, 0, AuthorClass)
        m2  == model(m1.classes, m1.repos, m1.conns, m1.count, BookClass)
    IN  /\ classes = m2.classes
        /\ repos = m2.repos
        /\ db_connections = m2.conns
        /\ db_count = m2.count
        /\ saved = [cls |-> 0, repo |-> 0]
        /\ heap = <<>>
        /\ call = NoCall
        /\ init_threads = <<>>
        /\ connection_lock = 0
        /\ table = NoTable

\* the repository an operation on the object 1 is called on: the one of its
\* class, and any repository for an instance that is no model
Receiver(h) ==
    IF is_model(classes, h[1].cls) THEN RepositoryOf(h[1].cls) ELSE repos[1]

SaveLinked ==
    /\ call.op = ""
    /\ \E h \in Graphs :
         \E r \in CompleteLinked("save", Receiver(h), h, 1, <<>>) :
            /\ call' = Call("save", h, r)
            /\ heap' = r.heap
    /\ UNCHANGED <<classes, repos, db_connections, db_count, saved,
                   init_threads, connection_lock, table>>

GetOrSaveLinked ==
    /\ call.op = ""
    /\ \E h \in Graphs :
         /\ is_model(classes, h[1].cls)
         /\ \E r \in CompleteLinked("get_or_save", Receiver(h), h, 1, <<>>) :
               /\ call' = Call("get_or_save", h, r)
               /\ heap' = r.heap
    /\ UNCHANGED <<classes, repos, db_connections, db_count, saved,
                   init_threads, connection_lock, table>>

NextLinked ==
    \/ SaveLinked
    \/ GetOrSaveLinked
    \/ Release

SpecLinked == InitLinked /\ [][NextLinked]_vars

\* the instance o as it was handed in, the first item of its __dict__ (a
\* name or a title that no other instance has), and the queries whose
\* parameters hold that item: the SELECT by data and the INSERT of o
Handed(o) == call.arg[o]
Ident(o) == Handed(o).attrs[1]
OwnQueries(o) ==
    {i \in 1..Len(call.queries) :
        \E j \in 1..Len(call.queries[i].params) :
            call.queries[i].params[j] = Ident(o)}

\* the fields of o that hold an instance of a model
ModelFields(o) ==
    {key \in Handed(o).refs :
        LET value == Item(Handed(o).attrs, key)
        IN  value # None /\ is_model(classes, Handed(value).cls)}

\* query i is a SELECT by conditions on the table of the class of o
IsSelectOf(i, o) ==
    StartsWith(Statement(call.queries[i]),
               "SELECT * FROM " \o TableName(classes, Handed(o).cls) \o " WHERE ")

===========================================================================
